---------------------------- MODULE Spec2Model ----------------------------
(***************************************************************************)
(* Temporal matrix factorization with VAR regularisation                   *)
(* (src/TemporalMatrixFactorization.ipynb).                                *)
(*                                                                         *)
(* The module has two layers.                                              *)
(*                                                                         *)
(*  - The numerical kernels (update_cg, ell_w, ell_x, conj_grad_w,         *)
(*    conj_grad_x, generate_Psi, var4cast, compute_mape, compute_rmse) are *)
(*    operators over matrices of exact rationals extended with the IEEE    *)
(*    values NaN and +-Inf.  Rounding is not modelled; 0/0 = NaN,          *)
(*    x/0 = +-Inf and NaN propagation are.  They are exercised by          *)
(*    SpecCG, SpecVar and SpecPsi, whose actions call one kernel on inputs *)
(*    drawn from small sets.                                               *)
(*                                                                         *)
(*  - The controller (rolling4cast driving notmf, notmf_dic, var4cast; and *)
(*    tmf of the stationary cell) is                                       *)
(*    the state machine Spec.  It keeps every shape, every numpy error,    *)
(*    the caller's data matrix and its in-place normalisation, and for     *)
(*    each factor matrix its shape, whether it is finite, and which update *)
(*    produced it.  Whether a conjugate-gradient solve hits 0/0 depends on  *)
(*    the data values; the controller draws it.                            *)
(***************************************************************************)
EXTENDS Integers, Sequences, FiniteSets, TLC

-----------------------------------------------------------------------------
(* Scalars: <<n, d>> with d > 0 is the rational n/d in lowest terms;       *)
(* <<0, 0>> is NaN, <<1, 0>> is +Inf, <<-1, 0>> is -Inf (IEEE 754 doubles   *)
(* as numpy computes with them, without rounding).                         *)

\* At(s, i) is s[i].  Written with SubSeq so that TLC evaluates the sequence
\* once and keeps the value, instead of re-evaluating the expression behind
\* s at every application.
At(s, i) == Head(SubSeq(s, i, i))
At2(M, i, j) == At(At(M, i), j)
NumOf(a) == At(a, 1)
DenOf(a) == At(a, 2)

NaN == <<0, 0>>
PInf == <<1, 0>>
NInf == <<-1, 0>>
Zero == <<0, 1>>
One == <<1, 1>>

Abs(n) == IF n < 0 THEN -n ELSE n
Sgn(n) == IF n < 0 THEN -1 ELSE IF n = 0 THEN 0 ELSE 1

RECURSIVE GCD(_, _)
GCD(a, b) == IF b = 0 THEN a ELSE GCD(b, a % b)

Norm(n, d) ==
    LET g == GCD(Abs(n), Abs(d))
    IN  IF d < 0 THEN <<(-n) \div g, (-d) \div g>> ELSE <<n \div g, d \div g>>

Num(n) == <<n, 1>>
IsNaN(a) == a = NaN
IsInf(a) == DenOf(a) = 0 /\ NumOf(a) # 0
IsFinite(a) == DenOf(a) # 0

Add(a, b) ==
    IF IsNaN(a) \/ IsNaN(b) THEN NaN
    ELSE IF IsInf(a) /\ IsInf(b) THEN (IF a = b THEN a ELSE NaN)
    ELSE IF IsInf(a) THEN a
    ELSE IF IsInf(b) THEN b
    ELSE LET g == GCD(DenOf(a), DenOf(b))
         IN  Norm(NumOf(a) * (DenOf(b) \div g) + NumOf(b) * (DenOf(a) \div g), DenOf(a) * (DenOf(b) \div g))

Neg(a) == <<-NumOf(a), DenOf(a)>>
Sub(a, b) == Add(a, Neg(b))

Mul(a, b) ==
    IF IsNaN(a) \/ IsNaN(b) THEN NaN
    ELSE IF IsInf(a) \/ IsInf(b)
         THEN (IF NumOf(a) = 0 \/ NumOf(b) = 0 THEN NaN ELSE <<Sgn(NumOf(a)) * Sgn(NumOf(b)), 0>>)
    ELSE LET g == GCD(Abs(NumOf(a)), DenOf(b))
             h == GCD(Abs(NumOf(b)), DenOf(a))
         IN  <<(NumOf(a) \div g) * (NumOf(b) \div h), (DenOf(a) \div h) * (DenOf(b) \div g)>>

Div(a, b) ==
    IF IsNaN(a) \/ IsNaN(b) THEN NaN
    ELSE IF IsInf(b) THEN (IF IsInf(a) THEN NaN ELSE Zero)
    ELSE IF IsInf(a) THEN (IF NumOf(b) < 0 THEN Neg(a) ELSE a)
    ELSE IF NumOf(b) = 0 THEN (IF NumOf(a) = 0 THEN NaN ELSE <<Sgn(NumOf(a)), 0>>)
    ELSE Mul(a, IF NumOf(b) < 0 THEN <<-DenOf(b), -NumOf(b)>> ELSE <<DenOf(b), NumOf(b)>>)

AbsV(a) == <<Abs(NumOf(a)), DenOf(a)>>

-----------------------------------------------------------------------------
(* Vectors are sequences of scalars, matrices sequences of rows.           *)

RECURSIVE SumSeq(_)
SumSeq(s) == IF s = <<>> THEN Zero ELSE Add(SumSeq(SubSeq(s, 1, Len(s) - 1)), At(s, Len(s)))

Rows(M) == Len(M)
Cols(M) == IF Len(M) = 0 THEN 0 ELSE Len(At(M, 1))

zeros(r, c) == [i \in 1..r |-> [j \in 1..c |-> Zero]]
eye(n) == [i \in 1..n |-> [j \in 1..n |-> IF i = j THEN One ELSE Zero]]

Transpose(M) == [j \in 1..Cols(M) |-> [i \in 1..Rows(M) |-> At2(M, i, j)]]

inner(u, v) == SumSeq([i \in 1..Len(u) |-> Mul(At(u, i), At(v, i))])

VAdd(u, v) == [i \in 1..Len(u) |-> Add(At(u, i), At(v, i))]
VSub(u, v) == [i \in 1..Len(u) |-> Sub(At(u, i), At(v, i))]
VScale(a, u) == [i \in 1..Len(u) |-> Mul(a, At(u, i))]

MAdd(M, K) == [i \in 1..Rows(M) |-> VAdd(At(M, i), At(K, i))]
MSub(M, K) == [i \in 1..Rows(M) |-> VSub(At(M, i), At(K, i))]
MScale(a, M) == [i \in 1..Rows(M) |-> VScale(a, At(M, i))]

\* M @ K for M of shape (r, n) and K of shape (n, c); c is passed because an
\* empty K does not carry it.
MatMulC(M, K, c) ==
    [i \in 1..Rows(M) |-> [j \in 1..c |->
        SumSeq([k \in 1..Cols(M) |-> Mul(At2(M, i, k), At2(K, k, j))])]]
MatMul(M, K) == MatMulC(M, K, Cols(K))

\* M * ind: elementwise product with a boolean mask (True = 1, False = 0).
Masked(M, ind) ==
    [i \in 1..Rows(M) |-> [j \in 1..Cols(M) |->
        Mul(At2(M, i, j), IF At2(ind, i, j) THEN One ELSE Zero)]]

\* np.append(M, K, axis = 1)
HCat(M, K) == [i \in 1..Rows(M) |-> At(M, i) \o At(K, i)]

MatFinite(M) == \A i \in 1..Rows(M) : \A j \in 1..Cols(M) : IsFinite(At2(M, i, j))


-----------------------------------------------------------------------------
(* numpy index helpers                                                     *)

\* np.reshape(M, -1, order = 'F'): the columns of M one after the other.
ReshapeF(M) ==
    [p \in 1..(Rows(M) * Cols(M)) |->
        At2(M, ((p - 1) % Rows(M)) + 1, ((p - 1) \div Rows(M)) + 1)]

\* np.reshape(v, (r, c)) in the default row-major order
UnreshapeC(v, r, c) == [i \in 1..r |-> [j \in 1..c |-> At(v, (i - 1) * c + j)]]

\* np.reshape(v, (r, c), order = 'F')
UnreshapeF(v, r, c) == [i \in 1..r |-> [j \in 1..c |-> At(v, (j - 1) * r + i)]]

\* M[:, a : b] with 0 <= a <= b <= Cols(M), as Python counts (b excluded).
ColRange(M, a, b) == [i \in 1..Rows(M) |-> SubSeq(At(M, i), a + 1, b)]

\* Python's slice bounds for a sequence of length n: a negative bound counts
\* from the end, and both are clipped to 0..n.
SliceLo(n, a) == IF a < 0 THEN (IF a + n < 0 THEN 0 ELSE a + n) ELSE (IF a > n THEN n ELSE a)
PySlice(M, a, b) ==
    LET n == Cols(M)
        lo == SliceLo(n, a)
        hi == SliceLo(n, b)
    IN  ColRange(M, lo, IF hi < lo THEN lo ELSE hi)

-----------------------------------------------------------------------------
(* Temporal operators: generate_Psi(T, d, season) of the NoTMF cell and    *)
(* generate_Psi(T, d) of the stationary cell.  Psi is a Python list of     *)
(* d + 1 arrays; PsiAt(Psi, k) is Psi[k].                                  *)

\* a difference block without the season columns
PsiCoreSquare(n, season) == eye(n)

\* np.append(-1 * np.eye(n), np.zeros((n, season)), axis = 1)
\*   + np.append(np.zeros((n, season)), np.eye(n), axis = 1)
PsiCore(n, season) ==
    MAdd(HCat(MScale(Num(-1), eye(n)), zeros(n, season)),
         HCat(zeros(n, season), eye(n)))

\* np.zeros and np.eye raise ValueError on a negative dimension.
generate_Psi_raises(T, d, season) == d >= 0 /\ (T - d - season < 0 \/ season < 0)

\* operators whose zero padding is swapped: k columns in front, d - k behind
generate_Psi_lead(T, d, season) ==
    LET n == T - d - season
    IN  [kk \in 1..(d + 1) |->
            HCat(HCat(zeros(n, kk - 1), PsiCore(n, season)), zeros(n, d - (kk - 1)))]

generate_Psi(T, d, season) ==
    LET n == T - d - season
    IN  [kk \in 1..(d + 1) |->
            LET k == kk - 1
            IN  IF k = 0
                THEN HCat(zeros(n, d), PsiCore(n, season))
                ELSE HCat(HCat(zeros(n, d - k), PsiCore(n, season)), zeros(n, k))]

\* generate_Psi(T, d) of the stationary cell
tmf_generate_Psi_raises(T, d) == d >= 0 /\ T - d < 0

tmf_generate_Psi(T, d) ==
    LET n == T - d
    IN  [kk \in 1..(d + 1) |->
            LET k == kk - 1
            IN  IF k = 0
                THEN HCat(zeros(n, d), eye(n))
                ELSE HCat(HCat(zeros(n, d - k), eye(n)), zeros(n, k))]

PsiAt(Psi, k) == At(Psi, k + 1)

-----------------------------------------------------------------------------
(* Conjugate gradient (NoTMF cell).                                        *)

\* update_cg: one step.  The division rold / inner(q, Aq) is not guarded.
update_cg(var, r, q, Aq, rold) ==
    LET alpha == Div(rold, inner(q, Aq))
        var1 == VAdd(var, VScale(alpha, q))
        r1 == VSub(r, VScale(alpha, Aq))
        rnew == inner(r1, r1)
        q1 == VAdd(r1, VScale(Div(rnew, rold), q))
    IN  [var |-> var1, r |-> r1, q |-> q1, rold |-> rnew]

\* X @ ((W.T @ X) * ind).T + rho * W
ell_w(ind, W, X, rho) ==
    MAdd(MatMulC(X, Transpose(Masked(MatMulC(Transpose(W), X, Cols(X)), ind)), Cols(W)),
         MScale(rho, W))

\* The state of the loop of conj_grad_w / conj_grad_x after `it` passes:
\* steps counts the calls of update_cg, zdiv records whether one of them
\* divided by a zero inner(q, Aq).
CgStart(x0, r0) ==
    [var |-> x0, r |-> r0, q |-> r0, rold |-> inner(r0, r0), steps |-> 0, zdiv |-> FALSE]

CgAdvance(st, Aq) ==
    LET u == update_cg(st.var, st.r, st.q, Aq, st.rold)
    IN  [var |-> u.var, r |-> u.r, q |-> u.q, rold |-> u.rold,
         steps |-> st.steps + 1,
         zdiv |-> st.zdiv \/ inner(st.q, Aq) = Zero]

\* a loop that stops as soon as the residual is zero
RECURSIVE cg_loop_w_early(_, _, _, _, _, _, _)
cg_loop_w_early(ind, X, rho, rank, dim1, st, todo) ==
    IF todo <= 0 \/ st.rold = Zero THEN st
    ELSE LET Q == UnreshapeF(st.q, rank, dim1)
             Aq == ReshapeF(ell_w(ind, Q, X, rho))
         IN  cg_loop_w_early(ind, X, rho, rank, dim1, CgAdvance(st, Aq), todo - 1)

RECURSIVE cg_loop_w(_, _, _, _, _, _, _)
cg_loop_w(ind, X, rho, rank, dim1, st, todo) ==
    IF todo <= 0 THEN st
    ELSE LET Q == UnreshapeF(st.q, rank, dim1)
             Aq == ReshapeF(ell_w(ind, Q, X, rho))
         IN  cg_loop_w(ind, X, rho, rank, dim1, CgAdvance(st, Aq), todo - 1)

conj_grad_w_run(sparse_mat, ind, W, X, rho, maxiter) ==
    LET rank == Rows(W)
        dim1 == Cols(W)
        w == ReshapeF(W)
        r == ReshapeF(MSub(MatMulC(X, Transpose(sparse_mat), dim1), ell_w(ind, W, X, rho)))
    IN  cg_loop_w(ind, X, rho, rank, dim1, CgStart(w, r), maxiter)

conj_grad_w(sparse_mat, ind, W, X, rho, maxiter) ==
    UnreshapeF(conj_grad_w_run(sparse_mat, ind, W, X, rho, maxiter).var, Rows(W), Cols(W))

\* a stack that holds the oldest lag in its first block
LagStackOldestFirst(X, Psi, d) ==
    LET rank == Rows(X)
        n == Rows(PsiAt(Psi, 0))
    IN  [p \in 1..(d * rank) |->
            LET k == d - ((p - 1) \div rank)
                i == ((p - 1) % rank) + 1
            IN  At(MatMulC(X, Transpose(PsiAt(Psi, k)), n), i)]

\* temp[(k - 1) * rank : k * rank, :] = X @ Psi[k].T for k = 1..d
LagStack(X, Psi, d) ==
    LET rank == Rows(X)
        n == Rows(PsiAt(Psi, 0))
    IN  [p \in 1..(d * rank) |->
            LET k == ((p - 1) \div rank) + 1
                i == ((p - 1) % rank) + 1
            IN  At(MatMulC(X, Transpose(PsiAt(Psi, k)), n), i)]

\* A[:, k * rank : (k + 1) * rank]
ABlock(A, k, rank) == ColRange(A, k * rank, (k + 1) * rank)

RECURSIVE EllXTemp2(_, _, _, _, _, _)
EllXTemp2(A, temp1, Psi, rank, dim2, k) ==
    IF k = 0 THEN zeros(rank, dim2)
    ELSE MAdd(EllXTemp2(A, temp1, Psi, rank, dim2, k - 1),
              MatMulC(MatMulC(Transpose(ABlock(A, k - 1, rank)), temp1, Cols(temp1)),
                      PsiAt(Psi, k), dim2))

ell_x(ind, W, X, A, Psi, d, lambda0, rho) ==
    LET rank == Rows(X)
        dim2 == Cols(X)
        n == Rows(PsiAt(Psi, 0))
        temp == LagStack(X, Psi, d)
        temp1 == MSub(MatMulC(X, Transpose(PsiAt(Psi, 0)), n), MatMulC(A, temp, n))
        temp2 == EllXTemp2(A, temp1, Psi, rank, dim2, d)
    IN  MAdd(MAdd(MatMulC(W, Masked(MatMulC(Transpose(W), X, dim2), ind), dim2),
                  MScale(rho, X)),
             MScale(lambda0, MSub(MatMulC(temp1, PsiAt(Psi, 0), dim2), temp2)))

RECURSIVE cg_loop_x(_, _, _, _, _, _, _, _, _, _)
cg_loop_x(ind, W, A, Psi, d, lambda0, rho, shape, st, todo) ==
    IF todo <= 0 THEN st
    ELSE LET Q == UnreshapeF(st.q, At(shape, 1), At(shape, 2))
             Aq == ReshapeF(ell_x(ind, W, Q, A, Psi, d, lambda0, rho))
         IN  cg_loop_x(ind, W, A, Psi, d, lambda0, rho, shape, CgAdvance(st, Aq), todo - 1)

conj_grad_x_run(sparse_mat, ind, W, X, A, Psi, d, lambda0, rho, maxiter) ==
    LET rank == Rows(X)
        dim2 == Cols(X)
        x == ReshapeF(X)
        r == ReshapeF(MSub(MatMulC(W, sparse_mat, dim2),
                           ell_x(ind, W, X, A, Psi, d, lambda0, rho)))
    IN  cg_loop_x(ind, W, A, Psi, d, lambda0, rho, <<rank, dim2>>, CgStart(x, r), maxiter)

conj_grad_x(sparse_mat, ind, W, X, A, Psi, d, lambda0, rho, maxiter) ==
    UnreshapeF(conj_grad_x_run(sparse_mat, ind, W, X, A, Psi, d, lambda0, rho, maxiter).var,
               Rows(X), Cols(X))

-----------------------------------------------------------------------------
(* VAR forecasting.  A kernel that can raise returns [err, val]: err is    *)
(* "none" or the name of the Python exception, val the returned array.     *)

Ok(v) == [err |-> "none", val |-> v]
Raise(e) == [err |-> e, val |-> <<>>]

\* A Python index i into an axis of length n: negative indices count from
\* the end; outside -n..n-1 numpy raises IndexError.
IdxOk(i, n) == -n <= i /\ i < n
PyIdx(i, n) == IF i < 0 THEN i + n ELSE i

Col(M, j) == [i \in 1..Rows(M) |-> At2(M, i, j + 1)]
SetCol(M, j, v) ==
    [i \in 1..Rows(M) |-> [p \in 1..Cols(M) |-> IF p = j + 1 THEN At(v, i) ELSE At2(M, i, p)]]

\* the lag columns pos-d, .., pos-1 one after the other (oldest lag first)
LagVectorOldestFirst(X_hat, pos, d) ==
    LET dim1 == Rows(X_hat)
        n == Cols(X_hat)
    IN  [p \in 1..(dim1 * d) |->
            LET k == d - ((p - 1) \div dim1)
                i == ((p - 1) % dim1) + 1
            IN  At2(X_hat, i, PyIdx(pos - k, n) + 1)]

\* lag columns taken from pos, pos-1, .., pos-d+1: the column being forecast
\* and the d - 1 before it
LagVectorFromCurrent(X_hat, pos, d) ==
    LET dim1 == Rows(X_hat)
        n == Cols(X_hat)
    IN  [p \in 1..(dim1 * d) |->
            LET k == (p - 1) \div dim1
                i == ((p - 1) % dim1) + 1
            IN  At2(X_hat, i, PyIdx(pos - k, n) + 1)]

\* X_hat[:, pos - np.arange(1, d + 1)].T.reshape(dim1 * d): the columns
\* pos-1, pos-2, .., pos-d one after the other (most recent lag first).
LagVector(X_hat, pos, d) ==
    LET dim1 == Rows(X_hat)
        n == Cols(X_hat)
    IN  [p \in 1..(dim1 * d) |->
            LET k == ((p - 1) \div dim1) + 1
                i == ((p - 1) % dim1) + 1
            IN  At2(X_hat, i, PyIdx(pos - k, n) + 1)]

LagIdxOk(X_hat, pos, d) == \A k \in 1..d : IdxOk(pos - k, Cols(X_hat))

\* The column indices base + t - np.arange(1, d + 1) that step t of the
\* forecast loop reads, as written (before numpy resolves a negative one).
LagReads(base, d, delta) ==
    {[step |-> t, idx |-> base + t - k] : t \in 0..(delta - 1), k \in 1..d}

\* The column index dim2 - season + t that step t of the second loop of the
\* seasonal var4cast reads in X and in X_hat.
SeasonReads(dim2, season, delta) ==
    {[step |-> t, idx |-> dim2 - season + t] : t \in 0..(delta - 1)}

\* A @ v
MatVec(A, v) == [i \in 1..Rows(A) |-> SumSeq([p \in 1..Len(v) |-> Mul(At2(A, i, p), At(v, p))])]

\* for t in range(delta): X_hat[:, base + t] = A @ <lag vector at base + t>
RECURSIVE ForecastLoop(_, _, _, _, _, _)
ForecastLoop(X_hat, A, d, base, t, delta) ==
    IF t >= delta THEN Ok(X_hat)
    ELSE IF ~ (LagIdxOk(X_hat, base + t, d) /\ IdxOk(base + t, Cols(X_hat)))
         THEN Raise("IndexError")
    ELSE ForecastLoop(
            SetCol(X_hat, PyIdx(base + t, Cols(X_hat)),
                   MatVec(A, LagVector(X_hat, base + t, d))),
            A, d, base, t + 1, delta)

\* the last delta columns, counted from the end
LastColsCounted(X_hat, delta) == ColRange(X_hat, Cols(X_hat) - delta, Cols(X_hat))

\* X_hat[:, - delta :]
LastCols(X_hat, delta) == PySlice(X_hat, -delta, Cols(X_hat))

\* a forecaster that returns the history together with the forecasts
tmf_var4cast_extended(X, A, d, delta) ==
    ForecastLoop(HCat(X, zeros(Rows(X), delta)), A, d, Cols(X), 0, delta)

\* var4cast(X, A, d, delta) of the stationary (tmf) cell.
tmf_var4cast(X, A, d, delta) ==
    LET dim1 == Rows(X)
        dim2 == Cols(X)
        X_hat == HCat(X, zeros(dim1, delta))
        done == ForecastLoop(X_hat, A, d, dim2, 0, delta)
    IN  IF done.err # "none" THEN done ELSE Ok(LastCols(done.val, delta))

\* X[:, season :] - X[:, : -season]; the operands broadcast when their
\* widths agree or one of them is 1, else numpy raises ValueError.
SeasonDiff(X, season) ==
    LET hi == PySlice(X, season, Cols(X))
        lo == PySlice(X, 0, -season)
        a == Cols(hi)
        b == Cols(lo)
        w == IF a = 1 THEN b ELSE a
    IN  IF a # b /\ a # 1 /\ b # 1 THEN Raise("ValueError")
        ELSE Ok([i \in 1..Rows(X) |-> [j \in 1..w |->
                    Sub(At2(hi, i, IF a = 1 THEN 1 ELSE j), At2(lo, i, IF b = 1 THEN 1 ELSE j))]])

\* a reconstruction that adds every forecast difference to the array as it
\* was before the loop, where the forecast columns are still zero
RECURSIVE SeasonLoopFromPadded(_, _, _, _, _, _)
SeasonLoopFromPadded(X, X_hat, dim2, season, t, delta) ==
    IF t >= delta THEN Ok(X)
    ELSE IF ~ (IdxOk(dim2 - season + t, Cols(X)) /\ IdxOk(dim2 - season + t, Cols(X_hat)))
         THEN Raise("IndexError")
    ELSE SeasonLoopFromPadded(
            SetCol(X, dim2 + t,
                   VAdd(IF PyIdx(dim2 - season + t, Cols(X)) >= dim2
                        THEN [i \in 1..Rows(X) |-> Zero]
                        ELSE Col(X, PyIdx(dim2 - season + t, Cols(X))),
                        Col(X_hat, PyIdx(dim2 - season + t, Cols(X_hat))))),
            X_hat, dim2, season, t + 1, delta)

\* for t in range(delta): X[:, dim2 + t] = X[:, dim2 - season + t] + X_hat[:, dim2 - season + t]
RECURSIVE SeasonLoop(_, _, _, _, _, _)
SeasonLoop(X, X_hat, dim2, season, t, delta) ==
    IF t >= delta THEN Ok(X)
    ELSE IF ~ (IdxOk(dim2 - season + t, Cols(X)) /\ IdxOk(dim2 - season + t, Cols(X_hat)))
         THEN Raise("IndexError")
    ELSE SeasonLoop(
            SetCol(X, dim2 + t,
                   VAdd(Col(X, PyIdx(dim2 - season + t, Cols(X))),
                        Col(X_hat, PyIdx(dim2 - season + t, Cols(X_hat))))),
            X_hat, dim2, season, t + 1, delta)

\* var4cast(X, A, d, delta, season) of the NoTMF cell.
var4cast(X, A, d, delta, season) ==
    LET dim1 == Rows(X)
        dim2 == Cols(X)
        D == SeasonDiff(X, season)
        X_hat == ForecastLoop(HCat(D.val, zeros(dim1, delta)), A, d, dim2 - season, 0, delta)
    IN  IF D.err # "none" THEN D
        ELSE IF X_hat.err # "none" THEN X_hat
        ELSE SeasonLoop(HCat(X, zeros(dim1, delta)), X_hat.val, dim2, season, 0, delta)

-----------------------------------------------------------------------------
(* State.  `call` is the last call whose arguments are on record: in the   *)
(* kernel specifications the direct call of a kernel with its result, in   *)
(* Spec the last call of notmf, notmf_dic or tmf with the arguments it was *)
(* given and the arguments it handed to its updates.  The other variables  *)
(* are the state of one top-level call of notmf, tmf or rolling4cast: its  *)
(* arguments, the caller's two arrays (sparse_in is the caller's           *)
(* observation array as it was when the call was made), the position in    *)
(* the code, the locals, what was printed, what the caller received, and   *)
(* counters of the calls made.  W, X, A, ind, it, fit_hat (the fit's       *)
(* mat_hat) and pos_test are the locals of the fit while it runs; once it  *)
(* has returned to rolling4cast, W, X and A are the locals rolling4cast    *)
(* bound to its result, and ind is the mask of the last notmf_dic.         *)

VARIABLES call, cfg, dense_mat, sparse_in, sparse_mat, pc, t, it, W, X, A, ind,
          X_new, mat_hat, fit_hat, pos_test, printed, ret, trace

data == <<cfg, dense_mat, sparse_in>>
locals == <<t, it, W, X, A, ind, X_new, mat_hat, fit_hat, pos_test>>
ctl == <<cfg, dense_mat, sparse_in, sparse_mat, pc, t, it, W, X, A, ind, X_new,
         mat_hat, fit_hat, pos_test, printed, ret, trace>>
vars == <<call, cfg, dense_mat, sparse_in, sparse_mat, pc, t, it, W, X, A, ind,
          X_new, mat_hat, fit_hat, pos_test, printed, ret, trace>>

NoCall == [fn |-> "none"]

-----------------------------------------------------------------------------
(* Bounds and input sets of the kernel specifications.                     *)

MaxCgIter == 2
MaxHist == 4
MaxDelta == 3

\* all 1-row .. matrices with `c` columns over the integers in S
RowsOver(S, c) == [1..c -> {Num(v) : v \in S}]
MatsOver(S, r, c) == [1..r -> RowsOver(S, c)]

\* ind = sparse_mat != 0
NonZeroMask(M) == [i \in 1..Rows(M) |-> [j \in 1..Cols(M) |-> At2(M, i, j) # Zero]]

\* Arguments of conj_grad_w: rank 1 with one or two entities over two time
\* steps, and one rank-2 family that tells a column-major reshape from a
\* row-major one.
CgWInputs ==
    {[sparse_mat |-> Y, W |-> W0, X |-> X0] :
        Y \in MatsOver({0, 1, 2}, 1, 2), W0 \in MatsOver({-1, 0, 1}, 1, 1),
        X0 \in MatsOver({0, 1, 2}, 1, 2)}
    \cup
    {[sparse_mat |-> Y, W |-> W0, X |-> X0] :
        Y \in MatsOver({0, 1}, 2, 2), W0 \in MatsOver({0, 1}, 1, 2),
        X0 \in MatsOver({1, 2}, 1, 2)}
    \cup
    {[sparse_mat |-> zeros(2, 2), W |-> W0, X |-> X0] :
        W0 \in {zeros(2, 2), <<<<Num(1), Num(2)>>, <<Num(3), Num(4)>>>>},
        X0 \in {eye(2), <<<<Num(1), Num(1)>>, <<Num(0), Num(1)>>>>}}

\* Arguments of conj_grad_x: rank 1, one entity, three time steps, VAR(1)
\* with season 1, and one rank-2 family as above.
CgXInputs ==
    {[sparse_mat |-> Y, W |-> W0, X |-> X0, A |-> A0, d |-> 1, season |-> 1] :
        Y \in MatsOver({0, 1}, 1, 3), W0 \in MatsOver({0, 1}, 1, 1),
        X0 \in MatsOver({0, 1}, 1, 3), A0 \in MatsOver({-1, 0}, 1, 1)}
    \cup
    {[sparse_mat |-> zeros(1, 3), W |-> zeros(2, 1), X |-> X0, A |-> zeros(2, 2),
      d |-> 1, season |-> 1] :
        X0 \in {zeros(2, 3),
                <<<<Num(1), Num(2), Num(3)>>, <<Num(4), Num(5), Num(6)>>>>}}

\* One direct call of conj_grad_w (rho = 1): its arguments, the initial
\* guess among them, the number of update_cg steps, whether a step divided by a
\* zero inner(q, Aq), and what the call returned.  conj_grad_w has no raise
\* statement and numpy's 0/0 is a warning, so err is always "none".
conj_grad_w_call(a, maxiter) ==
    LET mask == NonZeroMask(a.sparse_mat)
        run == conj_grad_w_run(a.sparse_mat, mask, a.W, a.X, One, maxiter)
    IN  [fn |-> "conj_grad_w", args |-> a, guess |-> a.W, maxiter |-> maxiter,
         steps |-> run.steps, zdiv |-> run.zdiv,
         out |-> Ok(conj_grad_w(a.sparse_mat, mask, a.W, a.X, One, maxiter))]

\* One direct call of conj_grad_x (lambda0 = rho = 1).
conj_grad_x_call(a, maxiter) ==
    LET mask == NonZeroMask(a.sparse_mat)
        Psi == generate_Psi(Cols(a.X), a.d, a.season)
        run == conj_grad_x_run(a.sparse_mat, mask, a.W, a.X, a.A, Psi, a.d, One, One, maxiter)
    IN  [fn |-> "conj_grad_x", args |-> a, guess |-> a.X, maxiter |-> maxiter,
         steps |-> run.steps, zdiv |-> run.zdiv,
         out |-> Ok(conj_grad_x(a.sparse_mat, mask, a.W, a.X, a.A, Psi, a.d, One, One, maxiter))]

CgWCalls == {conj_grad_w_call(a, maxiter) : a \in CgWInputs, maxiter \in 0..MaxCgIter}
CgXCalls == {conj_grad_x_call(a, maxiter) : a \in CgXInputs, maxiter \in 0..MaxCgIter}

\* Arguments of the two var4cast functions: one temporal factor row of 1 to
\* MaxHist columns, or two rows of three columns; every order d in Orders
\* with coefficients A of shape R x (d * R).
Orders == 0..2
Seasons == 0..2

VarCoefs(R, d) ==
    IF R = 1 THEN MatsOver({0, 1, 2}, 1, d)
    ELSE {zeros(R, d * R),
          [i \in 1..R |-> [p \in 1..(d * R) |-> IF p = i THEN One ELSE Zero]],
          [i \in 1..R |-> [p \in 1..(d * R) |-> IF p = i THEN One ELSE Num(p - i)]]}

VarHistories ==
    UNION {MatsOver({1, 3}, 1, n) : n \in 1..MaxHist}
    \cup {<<<<Num(1), Num(2), Num(4)>>, <<Num(0), Num(5), Num(3)>>>>,
          <<<<Num(1), Num(1), Num(1)>>, <<Num(2), Num(0), Num(2)>>>>,
          <<<<Num(1), Num(2), Num(4), Num(3)>>, <<Num(0), Num(5), Num(3), Num(1)>>>>}

VarInputs ==
    {[X |-> X0, A |-> A0, d |-> d0, delta |-> delta0] :
        <<X0, d0, A0>> \in UNION {{<<X1, d1, A1>> : A1 \in VarCoefs(Rows(X1), d1)} :
                                     <<X1, d1>> \in VarHistories \X Orders},
        delta0 \in 0..MaxDelta}

\* One direct call of the stationary cell's var4cast(X, A, d, delta).
tmf_var4cast_call(a) ==
    [fn |-> "tmf_var4cast", args |-> a, season |-> 0,
     out |-> tmf_var4cast(a.X, a.A, a.d, a.delta)]

\* One direct call of the NoTMF cell's var4cast(X, A, d, delta, season).
var4cast_call(a, season) ==
    [fn |-> "var4cast", args |-> a, season |-> season,
     out |-> var4cast(a.X, a.A, a.d, a.delta, season)]

TmfVarCalls == {tmf_var4cast_call(a) : a \in VarInputs}
VarCalls == {var4cast_call(a, season) : a \in VarInputs, season \in Seasons}

-----------------------------------------------------------------------------
(* Kernel specifications: one direct call of a kernel from the idle state. *)

Call_conj_grad_w ==
    /\ pc = "off"
    /\ call = NoCall
    /\ \E c \in CgWCalls : call' = c
    /\ UNCHANGED ctl

Call_conj_grad_x ==
    /\ pc = "off"
    /\ call = NoCall
    /\ \E c \in CgXCalls : call' = c
    /\ UNCHANGED ctl

Call_tmf_var4cast ==
    /\ pc = "off"
    /\ call = NoCall
    /\ \E c \in TmfVarCalls : call' = c
    /\ UNCHANGED ctl

Call_var4cast ==
    /\ pc = "off"
    /\ call = NoCall
    /\ \E c \in VarCalls : call' = c
    /\ UNCHANGED ctl

\* Arguments of the two generate_Psi functions
MaxPsiT == 7
PsiOrders == 0..3
PsiSeasons == 0..3

\* One direct call of the NoTMF cell's generate_Psi(T, d, season)
generate_Psi_call(T, d, season) ==
    [fn |-> "generate_Psi", args |-> [T |-> T, d |-> d], season |-> season,
     out |-> IF generate_Psi_raises(T, d, season) THEN Raise("ValueError")
             ELSE Ok(generate_Psi(T, d, season))]

\* One direct call of the stationary cell's generate_Psi(T, d)
tmf_generate_Psi_call(T, d) ==
    [fn |-> "tmf_generate_Psi", args |-> [T |-> T, d |-> d], season |-> 0,
     out |-> IF tmf_generate_Psi_raises(T, d) THEN Raise("ValueError")
             ELSE Ok(tmf_generate_Psi(T, d))]

PsiCalls ==
    {generate_Psi_call(T, d, season) : T \in 1..MaxPsiT, d \in PsiOrders, season \in PsiSeasons}
TmfPsiCalls == {tmf_generate_Psi_call(T, d) : T \in 1..MaxPsiT, d \in PsiOrders}

Call_generate_Psi ==
    /\ pc = "off"
    /\ call = NoCall
    /\ \E c \in PsiCalls : call' = c
    /\ UNCHANGED ctl

Call_tmf_generate_Psi ==
    /\ pc = "off"
    /\ call = NoCall
    /\ \E c \in TmfPsiCalls : call' = c
    /\ UNCHANGED ctl

\* No top-level call is in progress in the kernel specifications.
NoRun == [entry |-> "none"]
NoRet == [kind |-> "none"]
NoTrace == [nfit |-> 0, ndic |-> 0, nwin |-> 0, ncg |-> 0]

InitCall ==
    /\ call = NoCall
    /\ cfg = NoRun /\ dense_mat = <<>> /\ sparse_in = <<>> /\ sparse_mat = <<>>
    /\ pc = "off" /\ t = 0 /\ it = 0
    /\ W = <<>> /\ X = <<>> /\ A = <<>> /\ ind = <<>> /\ X_new = <<>>
    /\ mat_hat = <<>> /\ fit_hat = <<>> /\ pos_test = <<>>
    /\ printed = <<>> /\ ret = NoRet /\ trace = NoTrace

NextCG == Call_conj_grad_w \/ Call_conj_grad_x

SpecCG == InitCall /\ [][NextCG]_vars

NextVar == Call_tmf_var4cast \/ Call_var4cast

SpecVar == InitCall /\ [][NextVar]_vars

NextPsi == Call_generate_Psi \/ Call_tmf_generate_Psi

SpecPsi == InitCall /\ [][NextPsi]_vars

-----------------------------------------------------------------------------
(* The fit (notmf), the dictionary pass (notmf_dic) and the rolling        *)
(* controller (rolling4cast) of the NoTMF cell.  Shapes, slices, in-place  *)
(* writes, exceptions and the forecaster are the code's.  The entries of   *)
(* the factors are data-dependent floating-point numbers: a solve returns  *)
(* either a finite matrix or, when a step divided by a zero inner(q, Aq)   *)
(* or an argument was not finite, a NaN matrix.  Finite results are told   *)
(* apart by the number of the solve that produced them.                    *)

MaxT == 5
MaxPred == 3
MaxIter == 1
show_iter == 100

Filled(r, c, v) == [i \in 1..r |-> [j \in 1..c |-> v]]

\* 0.01 * np.random.randn(r, c): some finite matrix
Drawn(r, c) == Filled(r, c, Zero)

AnyNaN(M) == \E i \in 1..Rows(M) : \E j \in 1..Cols(M) : IsNaN(At2(M, i, j))

\* a normalisation that marks missing entries with 1
NanToOne(M) ==
    [i \in 1..Rows(M) |-> [j \in 1..Cols(M) |->
        IF IsNaN(At2(M, i, j)) THEN One ELSE At2(M, i, j)]]

\* M[np.isnan(M)] = 0
NanToZero(M) ==
    [i \in 1..Rows(M) |-> [j \in 1..Cols(M) |->
        IF IsNaN(At2(M, i, j)) THEN Zero ELSE At2(M, i, j)]]

\* a missing-marker branch that leaves the array as it is
NotNormalized(M) == M

\* The missing-marker branch of notmf and notmf_dic: the array is written
\* only when it holds a NaN.
Normalized(M) == IF AnyNaN(M) THEN NanToZero(M) ELSE M

\* M[:, a : a + V.shape[1]] = V.  A slice of the caller's array is a view,
\* so a write to the slice is a write to the array.
WriteCols(M, a, V) ==
    [i \in 1..Rows(M) |-> [j \in 1..Cols(M) |->
        IF a < j /\ j <= a + Cols(V) THEN At2(V, i, j - a) ELSE At2(M, i, j)]]

\* np.where(B) of a boolean array B: the positions <<row, column>> of its
\* true entries in row-major order
AllPos(M) ==
    [p \in 1..(Rows(M) * Cols(M)) |->
        <<((p - 1) \div Cols(M)) + 1, ((p - 1) % Cols(M)) + 1>>]
Where(B) == SelectSeq(AllPos(B), LAMBDA p : At2(B, p[1], p[2]))

\* M[pos]; an index outside M raises IndexError
TakeOk(M, pos) == \A k \in 1..Len(pos) : pos[k][1] <= Rows(M) /\ pos[k][2] <= Cols(M)
Take(M, pos) == [k \in 1..Len(pos) |-> At2(M, pos[k][1], pos[k][2])]

\* pos_test of notmf
HeldOut(dense, sparse) ==
    IF ~ AnyNaN(sparse)
    THEN Where([i \in 1..Rows(dense) |-> [j \in 1..Cols(dense) |->
                  At2(dense, i, j) # Zero /\ At2(sparse, i, j) = Zero]])
    ELSE Where([i \in 1..Rows(dense) |-> [j \in 1..Cols(dense) |->
                  At2(dense, i, j) # Zero /\ IsNaN(At2(sparse, i, j))]])

\* pos of rolling4cast
EvalPos(small) ==
    Where([i \in 1..Rows(small) |-> [j \in 1..Cols(small) |->
             At2(small, i, j) # Zero /\ ~ IsNaN(At2(small, i, j))]])

\* np.sqrt of a non-negative or NaN radicand, kept symbolic; it is NaN
\* exactly when the radicand is.
SqrtOf(a) == [sqrt |-> a]

\* a metric that answers 0 when there is nothing to average
compute_mape_guarded(var, var_hat) ==
    IF Len(var) = 0 THEN Zero
    ELSE Div(SumSeq([k \in 1..Len(var) |->
                        Div(AbsV(Sub(At(var, k), At(var_hat, k))), At(var, k))]),
             Num(Len(var)))

compute_mape(var, var_hat) ==
    Div(SumSeq([k \in 1..Len(var) |->
                    Div(AbsV(Sub(At(var, k), At(var_hat, k))), At(var, k))]),
        Num(Len(var)))

compute_rmse(var, var_hat) ==
    SqrtOf(Div(SumSeq([k \in 1..Len(var) |->
                          Mul(Sub(At(var, k), At(var_hat, k)),
                              Sub(At(var, k), At(var_hat, k)))]),
               Num(Len(var))))

Metrics(var, var_hat) ==
    [mape |-> compute_mape(var, var_hat), rmse |-> compute_rmse(var, var_hat)]

\* W = conj_grad_w(sparse_mat, ind, W, X, rho) as the k-th solve of the run;
\* brk: some step divided by a zero inner(q, Aq).
fit_conj_grad_w(obs, W0, X0, k, brk) ==
    IF Rows(W0) * Cols(W0) = 0 THEN W0
    ELSE IF brk \/ ~ (MatFinite(obs) /\ MatFinite(W0) /\ MatFinite(X0))
         THEN Filled(Rows(W0), Cols(W0), NaN)
    ELSE Filled(Rows(W0), Cols(W0), Num(k))

\* X = conj_grad_x(sparse_mat, ind, W, X, A, Psi, d, lambda0, rho)
fit_conj_grad_x(obs, W0, X0, A0, k, brk) ==
    IF Rows(X0) * Cols(X0) = 0 THEN X0
    ELSE IF brk \/ ~ (MatFinite(obs) /\ MatFinite(W0) /\ MatFinite(X0) /\ MatFinite(A0))
         THEN Filled(Rows(X0), Cols(X0), NaN)
    ELSE Filled(Rows(X0), Cols(X0), Num(k))

\* temp = stack of X @ Psi[k].T; A = X @ Psi[0].T @ np.linalg.pinv(temp).
\* pinv returns an empty array for an empty temp (A is then a product over
\* an empty axis: zeros) and raises LinAlgError when temp is not finite.
estimate_A(X0, d, season, k) ==
    LET rank == Rows(X0)
        tc == Cols(X0) - d - season
    IN  IF d * rank * tc = 0 THEN Ok(zeros(rank, d * rank))
        ELSE IF ~ MatFinite(X0) THEN Raise("LinAlgError")
        ELSE Ok(Filled(rank, d * rank, Num(k)))

\* ind of notmf and notmf_dic: sparse_mat != 0 when the array holds no NaN,
\* ~np.isnan(sparse_mat) when it holds one
fit_mask(M) ==
    IF ~ AnyNaN(M) THEN NonZeroMask(M)
    ELSE [i \in 1..Rows(M) |-> [j \in 1..Cols(M) |-> ~ IsNaN(At2(M, i, j))]]

\* an outer iteration that updates X before W
notmf_updates_XWA(obs, mask, W0, X0, A0, d, season, k, brkW, brkX) ==
    LET X1 == fit_conj_grad_x(obs, W0, X0, A0, k + 2, brkX)
        W1 == fit_conj_grad_w(obs, W0, X1, k + 1, brkW)
        A1 == estimate_A(X1, d, season, k + 2)
    IN  [W |-> W1, X |-> X1, A |-> A1,
         updates |->
            [conj_grad_w |-> [sparse_mat |-> obs, ind |-> mask, W |-> W0, X |-> X1],
             conj_grad_x |-> [sparse_mat |-> obs, ind |-> mask, W |-> W0, X |-> X0,
                              A |-> A0],
             pinv |-> [X |-> X1]]]

\* The three updates of one outer iteration of notmf, with the arguments
\* each of them is handed; k solves have been made before.
notmf_updates(obs, mask, W0, X0, A0, d, season, k, brkW, brkX) ==
    LET W1 == fit_conj_grad_w(obs, W0, X0, k + 1, brkW)
        X1 == fit_conj_grad_x(obs, W1, X0, A0, k + 2, brkX)
        A1 == estimate_A(X1, d, season, k + 2)
    IN  [W |-> W1, X |-> X1, A |-> A1,
         updates |->
            [conj_grad_w |-> [sparse_mat |-> obs, ind |-> mask, W |-> W0, X |-> X0],
             conj_grad_x |-> [sparse_mat |-> obs, ind |-> mask, W |-> W1, X |-> X0,
                              A |-> A0],
             pinv |-> [X |-> X1]]]

\* a later rolling step that starts from the X of the previous dictionary pass
notmf_dic_args_stale(view, W0, X0, Xn, A0) ==
    [sparse_mat |-> view, W |-> W0, X |-> X0, A |-> A0]

\* The arguments of notmf_dic(sparse_mat[:, : start_time + t * delta], W,
\* X_new, A, ..) in rolling4cast, whose locals are W0, X0, Xn (X_new), A0.
notmf_dic_args(view, W0, X0, Xn, A0) ==
    [sparse_mat |-> view, W |-> W0, X |-> Xn, A |-> A0]

\* The stationary cell's update_cg(ver, r, q, Aq, rold): its second
\* statement, var = var + alpha * q, reads the local var, which is not bound
\* (the parameter is named ver).
tmf_update_cg(ver, r, q, Aq, rold) == Raise("UnboundLocalError")

\* default maxiter of the stationary cell's conj_grad_w
cg_maxiter == 5

\* W = conj_grad_w(sparse_mat, ind, W, X, rho) in tmf: the first step of
\* the solve calls update_cg; the residual it is handed is not looked at.
tmf_conj_grad_w(W0, X0) ==
    IF cg_maxiter >= 1 THEN tmf_update_cg(ReshapeF(W0), <<>>, <<>>, <<>>, Zero)
    ELSE Ok(W0)

\* notmf_dic(obs, W, X, A, d, lambda0, rho, season), obs already normalized
notmf_dic(obs, W0, X0, A0, d, season, k, brk) ==
    IF generate_Psi_raises(Cols(obs), d, season)
    THEN [err |-> "ValueError", X |-> X0, A |-> A0]
    ELSE LET X1 == fit_conj_grad_x(obs, W0, X0, A0, k, brk)
             A1 == estimate_A(X1, d, season, k)
         IN  IF A1.err # "none" THEN [err |-> A1.err, X |-> X1, A |-> A0]
             ELSE [err |-> "none", X |-> X1, A |-> A1.val]

\* A later step of rolling4cast that also refits W.
rolling_refit_all(obs, W0, X0, A0, d, season, k, brk) ==
    LET r == notmf_dic(obs, W0, X0, A0, d, season, k, brk)
    IN  [err |-> r.err, W |-> fit_conj_grad_w(obs, W0, r.X, k, brk), X |-> r.X, A |-> r.A]

\* X, A = notmf_dic(sparse_mat[:, : start_time + t * delta], W, X_new, A, ..):
\* the step rebinds X and A and leaves W.
rolling_refit(obs, W0, X0, A0, d, season, k, brk) ==
    LET r == notmf_dic(obs, W0, X0, A0, d, season, k, brk)
    IN  [err |-> r.err, W |-> W0, X |-> r.X, A |-> r.A]

CeilDiv(a, b) == (a + b - 1) \div b

\* a window count rounded down
max_count_floor(pred_step, delta) == pred_step \div delta

\* int(np.ceil(pred_step / delta))
max_count(pred_step, delta) == CeilDiv(pred_step, delta)

start_time == cfg.T - cfg.pred_step

Raised(e, where) == [kind |-> "raise", exc |-> e, at |-> where]
Returned(m, W0, X0, A0) == [kind |-> "return", mat_hat |-> m, W |-> W0, X |-> X0, A |-> A0]

\* a first fit that is given the whole series
FitWidthWhole == cfg.T

\* Width of the array the fit (notmf, tmf) is given
FitWidth == IF cfg.entry \in {"notmf", "tmf"} THEN cfg.T ELSE start_time

\* No update has been handed its arguments yet.
NoUpdates == [conj_grad_w |-> <<>>, conj_grad_x |-> <<>>, pinv |-> <<>>]

-----------------------------------------------------------------------------
(* Inputs of the top-level calls.                                          *)

Ranks == {1, 2}
FitOrders == {0, 1}
FitSeasons == {0, 1}
Deltas == {1, 2}

\* Direct fits of up to MaxIter outer iterations; fits of show_iter
\* iterations on data without held-out entries; stationary fits; rolling
\* forecasts.
Configs ==
    {[entry |-> "tmf", T |-> T0, pred_step |-> 0, delta |-> 1, rank |-> r0,
      d |-> d0, season |-> 0, maxiter |-> n0] :
        T0 \in 1..MaxT, r0 \in Ranks, d0 \in FitOrders, n0 \in 0..MaxIter}
    \cup
    {[entry |-> "notmf", T |-> T0, pred_step |-> 0, delta |-> 1, rank |-> r0,
      d |-> d0, season |-> m0, maxiter |-> n0] :
        T0 \in 1..MaxT, r0 \in Ranks, d0 \in FitOrders, m0 \in FitSeasons,
        n0 \in 0..MaxIter}
    \cup
    {[entry |-> "notmf", T |-> 3, pred_step |-> 0, delta |-> 1, rank |-> 1,
      d |-> 1, season |-> m0, maxiter |-> show_iter] : m0 \in FitSeasons}
    \cup
    {[entry |-> "rolling4cast", T |-> T0, pred_step |-> p0, delta |-> e0,
      rank |-> r0, d |-> d0, season |-> m0, maxiter |-> n0] :
        <<T0, p0>> \in {<<T1, p1>> \in (2..MaxT) \X (1..MaxPred) : p1 <= T1},
        r0 \in Ranks, e0 \in Deltas, d0 \in FitOrders, m0 \in FitSeasons, n0 \in 0..MaxIter}

\* The caller's ground truth and observations, one entity: everything
\* observed; nothing observed (zero policy); every second value missing
\* (NaN policy) with no ground truth at all; the first and the fourth value
\* missing (NaN policy); no ground truth (NaN) against full observations; the
\* second value missing (NaN) in the ground truth and in the observations.
Datasets(T0) ==
    {[dense |-> Filled(1, T0, Num(2)), sparse |-> Filled(1, T0, Num(2))],
     [dense |-> Filled(1, T0, Num(2)),
      sparse |-> <<[j \in 1..T0 |-> IF j \in {1, 4} THEN NaN ELSE Num(2)]>>],
     [dense |-> Filled(1, T0, Num(2)), sparse |-> Filled(1, T0, Zero)],
     [dense |-> Filled(1, T0, Zero),
      sparse |-> <<[j \in 1..T0 |-> IF j % 2 = 1 THEN NaN ELSE One]>>],
     [dense |-> Filled(1, T0, NaN), sparse |-> Filled(1, T0, One)],
     [dense |-> <<[j \in 1..T0 |-> IF j = 2 THEN NaN ELSE Num(2)]>>,
      sparse |-> <<[j \in 1..T0 |-> IF j = 2 THEN NaN ELSE Num(2)]>>]}

-----------------------------------------------------------------------------
(* Actions: Init is the moment of the top-level call.                      *)

Init ==
    /\ call = NoCall
    /\ cfg \in Configs
    /\ \E ds \in Datasets(cfg.T) :
          /\ cfg.maxiter < show_iter \/ Len(HeldOut(ds.dense, ds.sparse)) = 0
          /\ dense_mat = ds.dense /\ sparse_in = ds.sparse /\ sparse_mat = ds.sparse
    /\ pc = "idle" /\ t = 0 /\ it = 0
    /\ W = <<>> /\ X = <<>> /\ A = <<>> /\ ind = <<>> /\ X_new = <<>>
    /\ mat_hat = <<>> /\ fit_hat = <<>> /\ pos_test = <<>>
    /\ printed = <<>> /\ ret = NoRet /\ trace = NoTrace

\* rolling4cast up to its loop
rolling4cast_begin ==
    /\ pc = "idle" /\ cfg.entry = "rolling4cast"
    /\ mat_hat' = zeros(Rows(sparse_mat), max_count(cfg.pred_step, cfg.delta) * cfg.delta)
    /\ t' = 0
    /\ pc' = "loop"
    /\ UNCHANGED <<call, data, sparse_mat, it, W, X, A, ind, X_new, fit_hat, pos_test,
                   printed, ret, trace>>

\* notmf up to its loop: called directly, or by step 0 of rolling4cast on
\* the slices [:, : start_time]
notmf_begin ==
    /\ \/ pc = "idle" /\ cfg.entry = "notmf"
       \/ pc = "loop" /\ t = 0 /\ t < max_count(cfg.pred_step, cfg.delta)
    /\ LET dense == PySlice(dense_mat, 0, FitWidth)
           sparse == PySlice(sparse_mat, 0, FitWidth)
           dim1 == Rows(sparse)
           dim2 == Cols(sparse)
       IN  /\ W' = Drawn(cfg.rank, dim1)
           /\ X' = Drawn(cfg.rank, dim2)
           /\ A' = Drawn(cfg.rank, cfg.d * cfg.rank)
           /\ ind' = fit_mask(sparse)
           /\ pos_test' = HeldOut(dense, sparse)
           /\ sparse_mat' = WriteCols(sparse_mat, 0, Normalized(sparse))
           /\ call' = [fn |-> "notmf", step |-> 0, given |-> [sparse_mat |-> sparse],
                       updates |-> NoUpdates]
           /\ IF generate_Psi_raises(dim2, cfg.d, cfg.season)
              THEN pc' = "raised" /\ ret' = Raised("ValueError", "notmf")
              ELSE pc' = "fit" /\ ret' = ret
    /\ it' = 0
    /\ fit_hat' = <<>>
    /\ trace' = [trace EXCEPT !.nfit = @ + 1]
    /\ UNCHANGED <<data, t, X_new, mat_hat, printed>>

\* an outer iteration that fits the ground truth instead of the observations
notmf_iter_on_dense ==
    /\ pc = "fit" /\ it < cfg.maxiter
    /\ \E brkW, brkX \in BOOLEAN :
        LET obs == PySlice(dense_mat, 0, FitWidth)
            u == notmf_updates(obs, ind, W, X, A, cfg.d, cfg.season, trace.ncg,
                               brkW, brkX)
            W1 == u.W
            X1 == u.X
            A1 == u.A
            hat == MatMul(Transpose(W1), X1)
            dense_test == Take(PySlice(dense_mat, 0, FitWidth), pos_test)
        IN  /\ W' = W1
            /\ X' = X1
            /\ call' = [call EXCEPT !.updates = u.updates]
            /\ IF A1.err # "none"
               THEN /\ pc' = "raised" /\ ret' = Raised(A1.err, "notmf")
                    /\ UNCHANGED <<A, fit_hat, printed, it>>
               ELSE /\ A' = A1.val
                    /\ fit_hat' = hat
                    /\ printed' = IF (it + 1) % show_iter = 0
                                  THEN Append(printed, Metrics(dense_test, Take(hat, pos_test)))
                                  ELSE printed
                    /\ it' = it + 1
                    /\ UNCHANGED <<pc, ret>>
    /\ trace' = [trace EXCEPT !.ncg = @ + 2]
    /\ UNCHANGED <<data, sparse_mat, t, ind, X_new, mat_hat, pos_test>>

\* one outer iteration of notmf
notmf_iter ==
    /\ pc = "fit" /\ it < cfg.maxiter
    /\ \E brkW, brkX \in BOOLEAN :
        LET obs == PySlice(sparse_mat, 0, FitWidth)
            u == notmf_updates(obs, ind, W, X, A, cfg.d, cfg.season, trace.ncg,
                               brkW, brkX)
            W1 == u.W
            X1 == u.X
            A1 == u.A
            hat == MatMul(Transpose(W1), X1)
            dense_test == Take(PySlice(dense_mat, 0, FitWidth), pos_test)
        IN  /\ W' = W1
            /\ X' = X1
            /\ call' = [call EXCEPT !.updates = u.updates]
            /\ IF A1.err # "none"
               THEN /\ pc' = "raised" /\ ret' = Raised(A1.err, "notmf")
                    /\ UNCHANGED <<A, fit_hat, printed, it>>
               ELSE /\ A' = A1.val
                    /\ fit_hat' = hat
                    /\ printed' = IF (it + 1) % show_iter = 0
                                  THEN Append(printed, Metrics(dense_test, Take(hat, pos_test)))
                                  ELSE printed
                    /\ it' = it + 1
                    /\ UNCHANGED <<pc, ret>>
    /\ trace' = [trace EXCEPT !.ncg = @ + 2]
    /\ UNCHANGED <<data, sparse_mat, t, ind, X_new, mat_hat, pos_test>>

\* notmf's return statement: mat_hat is bound by the first outer iteration
notmf_end ==
    /\ pc = "fit" /\ it >= cfg.maxiter
    /\ IF it = 0
       THEN pc' = "raised" /\ ret' = Raised("UnboundLocalError", "notmf")
       ELSE IF cfg.entry = "notmf"
            THEN pc' = "done" /\ ret' = Returned(fit_hat, W, X, A)
            ELSE pc' = "forecast" /\ ret' = ret
    /\ UNCHANGED <<call, data, sparse_mat, locals, printed, trace>>

\* the else branch of the rolling loop (t >= 1)
notmf_dic_step ==
    /\ pc = "loop" /\ t >= 1 /\ t < max_count(cfg.pred_step, cfg.delta)
    /\ \E brk \in BOOLEAN :
        LET view == PySlice(sparse_mat, 0, start_time + t * cfg.delta)
            given == notmf_dic_args(view, W, X, X_new, A)
            obs == Normalized(given.sparse_mat)
            r == rolling_refit(obs, given.W, given.X, given.A, cfg.d, cfg.season,
                               trace.ncg + 1, brk)
        IN  /\ call' = [fn |-> "notmf_dic", step |-> t, given |-> given,
                        updates |-> NoUpdates]
            /\ ind' = fit_mask(given.sparse_mat)
            /\ sparse_mat' = WriteCols(sparse_mat, 0, obs)
            /\ IF r.err # "none"
               THEN /\ pc' = "raised" /\ ret' = Raised(r.err, "notmf_dic")
                    /\ UNCHANGED <<W, X, A>>
               ELSE /\ pc' = "forecast" /\ ret' = ret
                    /\ W' = r.W /\ X' = r.X /\ A' = r.A
            /\ trace' = [trace EXCEPT !.ndic = @ + 1,
                                      !.ncg = IF r.err = "ValueError" THEN @ ELSE @ + 1]
    /\ UNCHANGED <<data, t, it, X_new, mat_hat, fit_hat, pos_test, printed>>

\* X_new = var4cast(..); mat_hat[:, t * delta : (t + 1) * delta] = W.T @ X_new[:, - delta :]
forecast_window ==
    /\ pc = "forecast"
    /\ LET f == var4cast(X, A, cfg.d, cfg.delta, cfg.season)
           win == MatMul(Transpose(W), LastCols(f.val, cfg.delta))
       IN  IF f.err # "none"
           THEN /\ pc' = "raised" /\ ret' = Raised(f.err, "var4cast")
                /\ UNCHANGED <<t, X_new, mat_hat, trace>>
           ELSE /\ X_new' = f.val
                /\ mat_hat' = WriteCols(mat_hat, t * cfg.delta, win)
                /\ t' = t + 1
                /\ trace' = [trace EXCEPT !.nwin = @ + 1]
                /\ pc' = "loop"
                /\ ret' = ret
    /\ UNCHANGED <<call, data, sparse_mat, it, W, X, A, ind, fit_hat, pos_test, printed>>

\* tmf up to its loop
tmf_begin ==
    /\ pc = "idle" /\ cfg.entry = "tmf"
    /\ LET dim1 == Rows(sparse_mat)
           dim2 == Cols(sparse_mat)
       IN  /\ ind' = NonZeroMask(sparse_mat)
           /\ W' = Drawn(cfg.rank, dim1)
           /\ X' = Drawn(cfg.rank, dim2)
           /\ A' = Drawn(cfg.rank, cfg.d * cfg.rank)
           /\ call' = [fn |-> "tmf", step |-> 0, given |-> [sparse_mat |-> sparse_mat],
                       updates |-> NoUpdates]
           /\ IF tmf_generate_Psi_raises(dim2, cfg.d)
              THEN pc' = "raised" /\ ret' = Raised("ValueError", "tmf")
              ELSE pc' = "tmf_fit" /\ ret' = ret
    /\ it' = 0
    /\ fit_hat' = <<>>
    /\ trace' = [trace EXCEPT !.nfit = @ + 1]
    /\ UNCHANGED <<data, sparse_mat, t, X_new, mat_hat, pos_test, printed>>

\* one outer iteration of tmf: it does not get past its first statement,
\* W = conj_grad_w(..), when the solve raises
tmf_iter ==
    /\ pc = "tmf_fit" /\ it < cfg.maxiter
    /\ LET w == tmf_conj_grad_w(W, X)
       IN  IF w.err # "none"
           THEN /\ pc' = "raised" /\ ret' = Raised(w.err, "update_cg")
                /\ UNCHANGED <<W, it>>
           ELSE /\ W' = w.val /\ it' = it + 1
                /\ UNCHANGED <<pc, ret>>
    /\ trace' = [trace EXCEPT !.ncg = @ + 1]
    /\ UNCHANGED <<call, data, sparse_mat, t, X, A, ind, X_new, mat_hat, fit_hat,
                   pos_test, printed>>

\* tmf's return statement: mat_hat is bound by the first outer iteration
tmf_end ==
    /\ pc = "tmf_fit" /\ it >= cfg.maxiter
    /\ IF it = 0
       THEN pc' = "raised" /\ ret' = Raised("UnboundLocalError", "tmf")
       ELSE pc' = "done" /\ ret' = Returned(fit_hat, W, X, A)
    /\ UNCHANGED <<call, data, sparse_mat, locals, printed, trace>>

\* after the loop: the two metrics are printed, then the return statement
rolling4cast_end ==
    /\ pc = "loop" /\ t >= max_count(cfg.pred_step, cfg.delta)
    /\ LET small_dense_mat == PySlice(dense_mat, start_time, cfg.T)
           pos == EvalPos(small_dense_mat)
       IN  IF ~ TakeOk(mat_hat, pos)
           THEN /\ pc' = "raised" /\ ret' = Raised("IndexError", "rolling4cast")
                /\ printed' = printed
           ELSE /\ printed' = Append(printed, Metrics(Take(small_dense_mat, pos),
                                                      Take(mat_hat, pos)))
                /\ IF trace.nfit = 0
                   THEN pc' = "raised" /\ ret' = Raised("UnboundLocalError", "rolling4cast")
                   ELSE pc' = "done" /\ ret' = Returned(mat_hat, W, X, A)
    /\ UNCHANGED <<call, data, sparse_mat, locals, trace>>

Next ==
    \/ rolling4cast_begin
    \/ notmf_begin
    \/ notmf_iter
    \/ notmf_end
    \/ notmf_dic_step
    \/ forecast_window
    \/ rolling4cast_end
    \/ tmf_begin
    \/ tmf_iter
    \/ tmf_end

Spec == Init /\ [][Next]_vars

-----------------------------------------------------------------------------
(* Claims about the conjugate-gradient solvers (SpecCG).                   *)

IsCgCall == call.fn \in {"conj_grad_w", "conj_grad_x"}

\* C4 (as claimed): when inner(q, Aq) is zero in some step of conj_grad_w
\* or conj_grad_x, the call reports a solver failure instead of returning
\* an iterate.
C4_ZeroDenominatorReported ==
    (IsCgCall /\ call.zdiv) => call.out.err # "none"

\* C8: conj_grad_w and conj_grad_x called with maxiter = 0 return a matrix
\* equal, entry by entry and in shape, to the initial guess W (resp. X).
C8_ZeroIterReturnsGuess ==
    (IsCgCall /\ call.maxiter = 0) => call.out = Ok(call.guess)

\* C8 witness: a two-row guess with four different entries went through
\* conj_grad_w with maxiter = 0 and came back.
C8_Witness ==
    /\ call.fn = "conj_grad_w"
    /\ call.maxiter = 0
    /\ call.steps = 0
    /\ call.guess = <<<<Num(1), Num(2)>>, <<Num(3), Num(4)>>>>
    /\ call.out.val = call.guess

\* C21: conj_grad_w and conj_grad_x perform exactly maxiter update steps and
\* then return; there is no early exit, also when the residual has become
\* zero (a later step then divides by a zero inner(q, Aq)).
C21_ExactlyMaxiterSteps ==
    IsCgCall =>
        /\ call.steps = call.maxiter
        /\ call.out.err = "none"
        /\ Rows(call.out.val) = Rows(call.guess)
        /\ Cols(call.out.val) = Cols(call.guess)

\* C21 witness: a conj_grad_w call of two steps whose residual was zero
\* before the last step still made both steps.
C21_Witness ==
    /\ call.fn = "conj_grad_w"
    /\ call.maxiter = 2 /\ call.steps = 2
    /\ call.zdiv

-----------------------------------------------------------------------------
(* Claims about the VAR forecaster (SpecVar).                              *)

IsVarCall == call.fn \in {"tmf_var4cast", "var4cast"}

\* The non-seasonal version is var4cast(X, A, d, delta) of the stationary
\* cell; the seasonal version is var4cast(X, A, d, delta, season) with a
\* season of at least one step.
IsVersionCall ==
    IsVarCall /\ (call.fn = "tmf_var4cast" \/ call.season >= 1)

\* A = [I | 0 | .. | 0]
AIdLike(R, d) == [i \in 1..R |-> [p \in 1..(d * R) |-> IF p = i THEN One ELSE Zero]]

HasIdLikeCoefs ==
    /\ IsVersionCall
    /\ call.args.d >= 1
    /\ call.args.A = AIdLike(Rows(call.args.X), call.args.d)

LastObserved == Col(call.args.X, Cols(call.args.X) - 1)

C10_ConstantContinuation ==
    HasIdLikeCoefs =>
        /\ call.out.err = "none"
        /\ \A k \in 1..call.args.delta :
              Col(call.out.val, Cols(call.out.val) - k) = LastObserved

\* C10 (amended): with A = [I | 0 | .. | 0] each of the delta forecast
\* columns of the non-seasonal var4cast equals the last observed column of X; the
\* seasonal var4cast on a history of at least season + 1 columns keeps the
\* last observed seasonal difference: forecast column T' + t equals column
\* T' + t - season of the returned matrix plus X[:, T'-1] - X[:, T'-1-season].
C10_IdLikeForecast ==
    HasIdLikeCoefs =>
        LET X0 == call.args.X
            n == Cols(X0)
            m == call.season
            out == call.out
        IN  IF call.fn = "tmf_var4cast"
            THEN /\ out.err = "none"
                 /\ \A k \in 1..call.args.delta :
                       Col(out.val, Cols(out.val) - k) = LastObserved
            ELSE n >= m + 1 =>
                 /\ out.err = "none"
                 /\ \A k \in 0..(call.args.delta - 1) :
                       Col(out.val, n + k) =
                           VAdd(Col(out.val, n + k - m),
                                VSub(Col(X0, n - 1), Col(X0, n - 1 - m)))

\* C10 witness: a seasonal forecast of two or more steps with identity-like
\* coefficients whose first forecast column differs from the last observed
\* column.
C10_Witness ==
    /\ HasIdLikeCoefs
    /\ call.fn = "var4cast"
    /\ call.args.delta >= 2
    /\ Cols(call.args.X) >= call.season + 1
    /\ call.out.err = "none"
    /\ Col(call.out.val, Cols(call.args.X)) # LastObserved

SeasonalInDomain ==
    /\ call.fn = "var4cast"
    /\ call.season >= 1 /\ call.args.d >= 1
    /\ Cols(call.args.X) >= call.args.d + call.season + 1

\* The VAR residual of a temporal factor Z as notmf, notmf_dic and ell_x
\* form it: Z @ Psi[0].T - A @ temp, temp the stack of Z @ Psi[k].T.
VarResidual(Z, A0, d, season) ==
    LET Psi == generate_Psi(Cols(Z), d, season)
        n == Rows(PsiAt(Psi, 0))
    IN  MSub(MatMulC(Z, Transpose(PsiAt(Psi, 0)), n),
             MatMulC(A0, LagStack(Z, Psi, d), n))

\* The temporal term of ell_x alone: W = 0, rho = 0, lambda0 = 1.
VarNormal(Z, A0, d, season) ==
    ell_x(Filled(1, Cols(Z), FALSE), zeros(Rows(Z), 1), Z, A0,
          generate_Psi(Cols(Z), d, season), d, One, Zero)

UnitAt(r, c, i, j) == [p \in 1..r |-> [q \in 1..c |-> IF p = i /\ q = j THEN One ELSE Zero]]

FrobInner(M, K) == inner(ReshapeF(M), ReshapeF(K))

\* C22: the k-th block of A meets the lag-k slice in the estimator's stack,
\* in the temporal term of ell_x and in var4cast's lag vector.  The series
\* var4cast returns for coefficients A has a zero VAR residual, as the
\* estimator and ell_x form it, at every forecast time; and the temporal
\* term of ell_x is the self-adjoint operator Z -> L*(L(Z)) of that
\* residual L: <G(Z), E> = <G(E), Z> for every unit matrix E (checked on
\* the series of the one-step forecasts; it does not depend on delta).
C22_SameLagOrder ==
    (SeasonalInDomain /\ call.out.err = "none") =>
        LET Z == call.out.val
            A0 == call.args.A
            d == call.args.d
            m == call.season
            n == Cols(call.args.X)
            res == VarResidual(Z, A0, d, m)
            G == VarNormal(Z, A0, d, m)
        IN  /\ \A k \in 0..(call.args.delta - 1) : \A i \in 1..Rows(Z) :
                  At2(res, i, n - d - m + k + 1) = Zero
            /\ call.args.delta = 1 =>
                  \A i \in 1..Rows(Z) : \A j \in 1..Cols(Z) :
                     At2(G, i, j) =
                         FrobInner(VarNormal(UnitAt(Rows(Z), Cols(Z), i, j), A0, d, m), Z)

\* C22 witness: a seasonal forecast of two steps from two factor rows with
\* two lags whose coefficient blocks differ.
C22_Witness ==
    /\ SeasonalInDomain /\ call.out.err = "none"
    /\ call.args.d = 2 /\ Rows(call.args.X) = 2 /\ call.args.delta >= 2
    /\ ABlock(call.args.A, 0, 2) # ABlock(call.args.A, 1, 2)
    /\ MatFinite(call.out.val)

\* the forecast differences of a seasonal call: the stationary recursion
\* on the seasonally differenced history
ForecastDiffs ==
    ForecastLoop(HCat(SeasonDiff(call.args.X, call.season).val,
                      zeros(Rows(call.args.X), call.args.delta)),
                 call.args.A, call.args.d, Cols(call.args.X) - call.season, 0,
                 call.args.delta).val

\* C23: in the seasonal var4cast (season m > 0, history of at least m
\* columns) every forecast column T' + k of the returned matrix equals its
\* column T' + k - m plus the forecast difference of step k; for k >= m that
\* column is the forecast of step k - m, already filled, not a zero
\* placeholder.
C23_SeasonalReconstruction ==
    (call.fn = "var4cast" /\ call.season >= 1 /\ Cols(call.args.X) >= call.season
        /\ call.out.err = "none") =>
        LET n == Cols(call.args.X)
            m == call.season
            out == call.out.val
        IN  \A k \in 0..(call.args.delta - 1) :
               /\ Col(out, n + k) =
                     VAdd(Col(out, n + k - m), Col(ForecastDiffs, n - m + k))
               /\ k < m => Col(out, n + k - m) = Col(call.args.X, n + k - m)

\* C23 witness: a forecast of three steps with season 1 on a valid history
\* whose second forecast column is built on a non-zero first forecast column.
C23_Witness ==
    /\ SeasonalInDomain /\ call.out.err = "none"
    /\ call.season = 1 /\ call.args.delta = 3
    /\ Col(call.out.val, Cols(call.args.X)) # [i \in 1..Rows(call.args.X) |-> Zero]
    /\ Col(call.out.val, Cols(call.args.X) + 1) # Col(ForecastDiffs, Cols(call.args.X))

\* the history X followed by delta columns of NaN instead of zeros
Poisoned(M, delta) == HCat(M, [i \in 1..Rows(M) |-> [j \in 1..delta |-> NaN]])

\* The call on record made again with every column that has not been
\* forecast yet holding NaN: a read of such a column makes the result NaN.
ReplayPoisoned ==
    LET X0 == call.args.X
        dim2 == Cols(X0)
    IN  IF call.fn = "tmf_var4cast"
        THEN LET done == ForecastLoop(Poisoned(X0, call.args.delta), call.args.A,
                                      call.args.d, dim2, 0, call.args.delta)
             IN  IF done.err # "none" THEN done
                 ELSE Ok(LastCols(done.val, call.args.delta))
        ELSE LET D == SeasonDiff(X0, call.season)
                 X_hat == ForecastLoop(Poisoned(D.val, call.args.delta), call.args.A,
                                       call.args.d, dim2 - call.season, 0, call.args.delta)
             IN  IF D.err # "none" THEN D
                 ELSE IF X_hat.err # "none" THEN X_hat
                 ELSE SeasonLoop(Poisoned(X0, call.args.delta), X_hat.val, dim2,
                                 call.season, 0, call.args.delta)

\* C29: for every valid configuration (T' >= d + m + 1, delta >= 1) every
\* column var4cast reads at forecast step t has a non-negative index and is
\* a column of the history or a forecast column filled at a step s < t (the
\* forecast difference of step t itself in the second loop of the seasonal
\* version): the indices as written satisfy it, the versions in use (the
\* stationary one, the seasonal one with m >= 1) return, and the result is
\* the same when the unfilled columns hold NaN instead of 0.
C29_ReadsHistoryOrFilled ==
    (IsVarCall /\ call.args.delta >= 1
        /\ Cols(call.args.X) >= call.args.d + call.season + 1) =>
        LET dim2 == Cols(call.args.X)
            d == call.args.d
            m == call.season
            delta == call.args.delta
        IN  /\ IsVersionCall => call.out.err = "none"
            /\ ReplayPoisoned = call.out
            /\ call.out.err = "none" =>
                  /\ \A r \in LagReads(dim2 - m, d, delta) :
                        0 <= r.idx /\ r.idx < dim2 - m + r.step
                  /\ call.fn = "var4cast" =>
                        \A r \in SeasonReads(dim2, m, delta) :
                           /\ 0 <= r.idx /\ r.idx < dim2 + r.step
                           /\ r.idx < dim2 - m + delta

\* C29 witness: a seasonal forecast of three steps with two lags and season
\* 1 on a valid history returned finite, non-zero last forecast column.
C29_Witness ==
    /\ SeasonalInDomain /\ call.out.err = "none"
    /\ call.args.d = 2 /\ call.season = 1 /\ call.args.delta = 3
    /\ MatFinite(call.out.val)
    /\ Col(call.out.val, Cols(call.args.X) + 2) # Col(call.out.val, Cols(call.args.X) + 1)

-----------------------------------------------------------------------------
(* Claims about the temporal operators (SpecPsi).                          *)

IsPsiCall == call.fn \in {"generate_Psi", "tmf_generate_Psi"}

\* the call is within T >= d + m + 1
PsiInDomain == IsPsiCall /\ call.args.T >= call.args.d + call.season + 1

\* the number of entries of row `row` equal to v
CountIn(row, v) == Cardinality({j \in 1..Len(row) : At(row, j) = v})

\* C11 (as claimed): with season 0, for T > d >= 1, Psi_0 is [0 | I_(T-d)],
\* for generate_Psi(T, d) and for generate_Psi(T, d, 0).
C11_NoSeasonSelectsLastColumns ==
    (IsPsiCall /\ call.season = 0 /\ call.args.d >= 1 /\ call.args.T > call.args.d) =>
        /\ call.out.err = "none"
        /\ PsiAt(call.out.val, 0) =
              HCat(zeros(call.args.T - call.args.d, call.args.d),
                   eye(call.args.T - call.args.d))

\* C12 (as claimed): every row of every Psi_k holds exactly one +1, exactly
\* one -1 when m > 0 and no -1 when m = 0, and 0 everywhere else.
C12_OnePlusOneMinusPerRow ==
    PsiInDomain =>
        /\ call.out.err = "none"
        /\ \A k \in 0..call.args.d :
              \A i \in 1..Rows(PsiAt(call.out.val, k)) :
                 LET row == At(PsiAt(call.out.val, k), i)
                     minus == IF call.season > 0 THEN 1 ELSE 0
                 IN  /\ CountIn(row, One) = 1
                     /\ CountIn(row, Num(-1)) = minus
                     /\ CountIn(row, Zero) = Len(row) - 1 - minus

\* C13: for T >= d + m + 1 generate_Psi returns exactly d + 1 matrices,
\* each of T - d - m rows and T columns (m = 0 for generate_Psi(T, d)).
C13_OperatorShapes ==
    PsiInDomain =>
        /\ call.out.err = "none"
        /\ Len(call.out.val) = call.args.d + 1
        /\ \A k \in 0..call.args.d :
              /\ Rows(PsiAt(call.out.val, k)) = call.args.T - call.args.d - call.season
              /\ Cols(PsiAt(call.out.val, k)) = call.args.T

\* C13 witness: generate_Psi(5, 2, 1) returned three operators of 2 x 5.
C13_Witness ==
    /\ call.fn = "generate_Psi"
    /\ call.args = [T |-> 5, d |-> 2] /\ call.season = 1
    /\ Len(call.out.val) = 3
    /\ Rows(PsiAt(call.out.val, 2)) = 2 /\ Cols(PsiAt(call.out.val, 2)) = 5

-----------------------------------------------------------------------------
(* Claims about the fit and the rolling controller (Spec).                 *)

IsRolling == cfg.entry = "rolling4cast"

Windows == CeilDiv(cfg.pred_step, cfg.delta)

\* C1 (as claimed): rolling4cast runs exactly ceil(pred_step / delta)
\* forecast windows and the forecast matrix it returns has exactly pred_step
\* columns, whether or not delta divides pred_step.
C1_ExactlyPredStepColumns ==
    (IsRolling /\ ret.kind = "return") =>
        /\ trace.nwin = Windows
        /\ Cols(ret.mat_hat) = cfg.pred_step

\* C1 (amended): a rolling4cast that returns has run exactly
\* ceil(pred_step / delta) forecast windows and returns a forecast matrix of
\* ceil(pred_step / delta) * delta columns, which is pred_step columns
\* exactly when delta divides pred_step.
C1_WindowsOfWidthDelta ==
    (IsRolling /\ ret.kind = "return") =>
        /\ trace.nwin = Windows
        /\ Cols(ret.mat_hat) = Windows * cfg.delta
        /\ (Cols(ret.mat_hat) = cfg.pred_step) <=> (cfg.pred_step % cfg.delta = 0)

\* C1 witness: pred_step = 3 and delta = 2 returned two windows, four columns.
C1_Witness ==
    /\ IsRolling /\ ret.kind = "return"
    /\ cfg.pred_step = 3 /\ cfg.delta = 2
    /\ trace.nwin = 2 /\ Cols(ret.mat_hat) = 4

\* notmf has returned to rolling4cast
FitHandedOver == IsRolling /\ (pc = "forecast" \/ t >= 1)

\* C2: in rolling4cast notmf runs exactly once, at step 0; every later step
\* t >= 1 re-estimates X and A by one notmf_dic pass; W stays equal to the W
\* of step 0 through every later step and in the returned result.
C2_FitOnceThenWFixed ==
    /\ [](IsRolling =>
            /\ trace.nfit <= 1
            /\ (FitHandedOver => trace.nfit = 1)
            /\ (pc = "loop" => trace.ndic = (IF t = 0 THEN 0 ELSE t - 1))
            /\ (pc = "forecast" => trace.ndic = t)
            /\ (ret.kind = "return" => ret.W = W /\ trace.ndic = Windows - 1))
    /\ [][FitHandedOver => W' = W]_vars

\* C2 witness: a returned rolling forecast of at least two steps with a
\* finite W.
C2_Witness ==
    /\ IsRolling /\ ret.kind = "return"
    /\ trace.nfit = 1 /\ trace.ndic >= 1
    /\ MatFinite(W) /\ ret.W = W

InvalidConfig ==
    \/ cfg.rank < 1
    \/ cfg.d < 1
    \/ cfg.season < 0
    \/ FitWidth < cfg.d + cfg.season + 1

\* C3 (as claimed): for an invalid configuration (rank < 1, d < 1, negative
\* season, or a window of fewer than d + season + 1 columns) no outer
\* iteration and no conjugate-gradient solve runs and no factors or
\* forecasts are returned.
C3_InvalidConfigRejected ==
    InvalidConfig =>
        /\ it = 0 /\ trace.ncg = 0 /\ trace.nwin = 0
        /\ ret.kind # "return"

FitReturned ==
    \/ cfg.entry = "notmf" /\ ret.kind = "return"
    \/ IsRolling /\ pc = "forecast" /\ t = 0

\* C5 (as claimed): a fit never returns normally with a non-finite entry
\* in mat_hat, W, X or A.
C5_FitReturnsFinite ==
    FitReturned =>
        MatFinite(fit_hat) /\ MatFinite(W) /\ MatFinite(X) /\ MatFinite(A)

\* The forecasts the caller holds after the call: those of the returned
\* tuple; an exception carries none.
HandedOver == IF ret.kind = "return" THEN ret.mat_hat ELSE <<>>

\* C6 (as claimed): when a rolling step t >= 1 fails, the caller receives
\* the failure together with the forecast windows of steps 0 .. t-1.
C6_FailureKeepsWindows ==
    (IsRolling /\ ret.kind = "raise" /\ trace.nwin >= 1) =>
        HandedOver = PySlice(mat_hat, 0, trace.nwin * cfg.delta)

NoGroundTruth == Len(EvalPos(PySlice(dense_mat, start_time, cfg.T))) = 0

\* C7: when the set of evaluation positions is empty, compute_mape and
\* compute_rmse yield NaN, and the caller still completes: rolling4cast,
\* once its loop is over, prints them and returns its factors and
\* forecasts; notmf prints them at iteration show_iter, goes on and returns.
C7_UndefinedMetricNoCrash ==
    /\ (IsRolling /\ t >= Windows /\ pc # "loop" /\ NoGroundTruth) =>
            /\ ret = Returned(mat_hat, W, X, A)
            /\ Len(printed) = 1
            /\ IsNaN(printed[1].mape)
            /\ IsNaN(printed[1].rmse.sqrt)
    /\ (cfg.entry = "notmf" /\ it >= show_iter /\ Len(pos_test) = 0) =>
            /\ Len(printed) = it \div show_iter
            /\ IsNaN(printed[1].mape)
            /\ IsNaN(printed[1].rmse.sqrt)
            /\ pc # "fit" => ret = Returned(fit_hat, W, X, A)

\* C7 witness: a rolling forecast without ground truth in the forecast
\* columns has returned finite forecasts.
C7_Witness ==
    /\ IsRolling /\ ret.kind = "return" /\ NoGroundTruth
    /\ MatFinite(ret.mat_hat) /\ Len(printed) = 1

\* C14: once notmf, notmf_dic or rolling4cast has returned (and at every
\* moment before), the caller's observation matrix differs from its value
\* at the call only at entries that were NaN, which now hold 0; a matrix
\* that held no NaN is unchanged.
C14_OnlyNaNsAreZeroed ==
    (cfg.entry \in {"notmf", "rolling4cast"}) =>
        /\ Rows(sparse_mat) = Rows(sparse_in) /\ Cols(sparse_mat) = Cols(sparse_in)
        /\ \A i \in 1..Rows(sparse_in) : \A j \in 1..Cols(sparse_in) :
               \/ At2(sparse_mat, i, j) = At2(sparse_in, i, j)
               \/ IsNaN(At2(sparse_in, i, j)) /\ At2(sparse_mat, i, j) = Zero
        /\ ~ AnyNaN(sparse_in) => sparse_mat = sparse_in

\* C14 witness: a rolling forecast of two steps has returned; notmf and
\* notmf_dic wrote zeros over NaN entries of the caller's array, and a NaN
\* outside the last window is still there.
C14_Witness ==
    /\ IsRolling /\ ret.kind = "return" /\ trace.ndic >= 1
    /\ \E j \in (start_time + 1)..Cols(sparse_in) :
          IsNaN(At2(sparse_in, 1, j)) /\ At2(sparse_mat, 1, j) = Zero
    /\ AnyNaN(sparse_mat)

FitCallMade == call.fn \in {"notmf", "notmf_dic", "tmf"}

\* C15 (as claimed): in every fit call (notmf, notmf_dic, tmf) a true mask
\* entry implies that the entry of the observation matrix the call was
\* given is not NaN and, when the matrix holds no NaN (zero policy), not 0.
C15_MaskImpliesObserved ==
    FitCallMade =>
        LET obs == call.given.sparse_mat
        IN  \A i \in 1..Rows(obs) : \A j \in 1..Cols(obs) :
               At2(ind, i, j) =>
                   /\ ~ IsNaN(At2(obs, i, j))
                   /\ ~ AnyNaN(obs) => At2(obs, i, j) # Zero

\* a configuration the fit accepts: rank, d >= 1 and a window of at least
\* d + season + 1 columns
ValidFit == ~ InvalidConfig

FitOver == cfg.entry \in {"notmf", "tmf"} /\ pc \in {"done", "raised"}

\* C17 (as claimed): for every budget maxiter >= 0 the fit (notmf, tmf)
\* runs exactly maxiter outer iterations and returns (mat_hat, W, X, A)
\* with mat_hat = W.T @ X.  Stated for valid configurations.
C17_BudgetConsumedThenReturned ==
    (FitOver /\ ValidFit) =>
        /\ ret.kind = "return"
        /\ it = cfg.maxiter
        /\ ret.mat_hat = MatMul(Transpose(ret.W), ret.X)

\* an entry the caller marked missing: NaN when the caller's array holds a
\* NaN, 0 when it holds none
MissingIn(M, i, j) ==
    IF AnyNaN(M) THEN IsNaN(At2(M, i, j)) ELSE At2(M, i, j) = Zero

\* C18 (as claimed): during rolling4cast an entry missing in the caller's
\* input matrix has a false mask entry in every step whose window holds
\* its column.
C18_MissingStaysMasked ==
    (IsRolling /\ call.fn \in {"notmf", "notmf_dic"}) =>
        \A i \in 1..Rows(ind) : \A j \in 1..Cols(ind) :
            MissingIn(sparse_in, i, j) => ~ At2(ind, i, j)

\* C19: at every rolling step t >= 1 notmf_dic is handed the X_new that
\* var4cast extrapolated at step t-1 and the A of step t-1, and that X has
\* start_time + t * delta columns, the width of the observation window.
C19_DicStartsFromExtrapolatedX ==
    /\ [](call.fn = "notmf_dic" =>
            /\ call.step >= 1
            /\ Cols(call.given.sparse_mat) = start_time + call.step * cfg.delta
            /\ Cols(call.given.X) = Cols(call.given.sparse_mat))
    /\ []((IsRolling /\ pc = "loop" /\ t >= 1) =>
            /\ X_new = var4cast(X, A, cfg.d, cfg.delta, cfg.season).val
            /\ Cols(X_new) = start_time + t * cfg.delta)
    /\ [][trace'.ndic # trace.ndic =>
            /\ call'.fn = "notmf_dic" /\ call'.step = t
            /\ call'.given.X = X_new
            /\ call'.given.A = A
            /\ call'.given.W = W]_vars

\* C19 witness: the second dictionary pass of a rolling forecast started
\* from an extrapolated X of start_time + 2 * delta columns that differs in
\* width from the X the first pass returned.
C19_Witness ==
    /\ call.fn = "notmf_dic" /\ call.step = 2 /\ pc = "forecast"
    /\ cfg.d = 1 /\ cfg.season = 1
    /\ Cols(call.given.X) = start_time + 2 * cfg.delta
    /\ MatFinite(call.given.X) /\ MatFinite(call.given.A)
    /\ Cols(X) = Cols(call.given.X)

\* C20: in each outer iteration of notmf conj_grad_w is handed the W, X of
\* the previous iteration, conj_grad_x the W just computed with the X and
\* A of the previous iteration, and A is estimated from the X just
\* computed; on return A is the estimate computed from the returned X.
C20_UpdateOrderWXA ==
    /\ [][(pc = "fit" /\ trace'.ncg # trace.ncg) =>
            /\ call'.updates.conj_grad_w.W = W
            /\ call'.updates.conj_grad_w.X = X
            /\ call'.updates.conj_grad_x.W = W'
            /\ call'.updates.conj_grad_x.X = X
            /\ call'.updates.conj_grad_x.A = A
            /\ call'.updates.pinv.X = X'
            /\ W' = fit_conj_grad_w(call'.updates.conj_grad_w.sparse_mat, W, X,
                                     trace.ncg + 1, ~ MatFinite(W'))
            /\ pc' = "fit" =>
                  A' = estimate_A(X', cfg.d, cfg.season, trace'.ncg).val]_vars
    /\ [](FitReturned => A = estimate_A(X, cfg.d, cfg.season, trace.ncg).val)

\* C20 witness: notmf has returned after an outer iteration on a valid
\* configuration with finite, non-empty W, X and A.
C20_Witness ==
    /\ cfg.entry = "notmf" /\ ret.kind = "return" /\ ValidFit
    /\ it >= 1
    /\ call.updates.conj_grad_x.W = ret.W
    /\ call.updates.conj_grad_x.W # call.updates.conj_grad_w.W
    /\ MatFinite(ret.X) /\ MatFinite(ret.A) /\ Cols(ret.A) >= 1

\* C25 (as claimed): the held-out positions pos_test of notmf are exactly
\* the entries that are observed in the ground truth (neither 0 nor NaN) and
\* excluded from the fitting mask, under the zero policy and under the NaN
\* policy.
C25_HeldOutIsObservedAndUnmasked ==
    (call.fn = "notmf" /\ pc = "fit") =>
        LET dense == PySlice(dense_mat, 0, FitWidth)
        IN  \A i \in 1..Rows(dense) : \A j \in 1..Cols(dense) :
               (\E k \in 1..Len(pos_test) : pos_test[k] = <<i, j>>)
                  <=> /\ At2(dense, i, j) # Zero
                      /\ ~ IsNaN(At2(dense, i, j))
                      /\ ~ At2(ind, i, j)

\* C26: dense_mat influences only the printed diagnostics of notmf.  Every
\* step of a notmf run hands its updates the arguments, and binds W, X, A,
\* mat_hat, the mask and the returned tuple to the values, that the
\* observations, the parameters, the drawn factors and the outcomes of the
\* solves determine; the ground truth does not occur in them, so two runs
\* that differ in dense_mat only perform the same updates and return the
\* same (mat_hat, W, X, A).
C26_DenseOnlyInDiagnostics ==
    [][cfg.entry = "notmf" =>
         /\ pc = "idle" =>
               /\ W' = Drawn(cfg.rank, Rows(sparse_in))
               /\ X' = Drawn(cfg.rank, Cols(sparse_in))
               /\ A' = Drawn(cfg.rank, cfg.d * cfg.rank)
               /\ ind' = fit_mask(sparse_in)
               /\ sparse_mat' = Normalized(sparse_in)
               /\ pc' = IF generate_Psi_raises(Cols(sparse_in), cfg.d, cfg.season)
                        THEN "raised" ELSE "fit"
         /\ (pc = "fit" /\ it < cfg.maxiter) =>
               \E brkW, brkX \in BOOLEAN :
                  LET u == notmf_updates(Normalized(sparse_in), fit_mask(sparse_in),
                                         W, X, A, cfg.d, cfg.season, trace.ncg,
                                         brkW, brkX)
                  IN  /\ call'.updates = u.updates
                      /\ W' = u.W /\ X' = u.X
                      /\ IF u.A.err # "none"
                         THEN ret' = Raised(u.A.err, "notmf") /\ A' = A
                         ELSE /\ A' = u.A.val
                              /\ fit_hat' = MatMul(Transpose(u.W), u.X)
                              /\ ret' = ret /\ it' = it + 1
         /\ (pc = "fit" /\ it >= cfg.maxiter) =>
               ret' = IF it = 0 THEN Raised("UnboundLocalError", "notmf")
                      ELSE Returned(fit_hat, W, X, A)]_vars

\* C26 witness: notmf has returned after printing diagnostics against a
\* ground truth that differs from the observations.
C26_Witness ==
    /\ cfg.entry = "notmf" /\ ret.kind = "return"
    /\ printed # <<>>
    /\ dense_mat # sparse_in /\ dense_mat # sparse_mat
    /\ call.updates.conj_grad_w.sparse_mat = sparse_mat

\* C27: no look-ahead in rolling4cast.  The fit of step t is handed the
\* observation columns below start_time + t * delta only: its mask and its
\* updates are computed from that prefix, the refit of a later step is
\* determined by the prefix and the factors of the previous steps, the
\* columns from start_time + t * delta on are left as the caller gave
\* them, and the window stored for step t is W.T @ X_new[:, -delta:] of
\* the factors so obtained.  An observation at a column >= start_time +
\* t * delta does not occur in any of them.
C27_NoLookAhead ==
    [][IsRolling =>
         LET seen == start_time + t * cfg.delta
             view == PySlice(sparse_mat, 0, seen)
         IN  /\ (pc = "loop" /\ t < Windows) =>
                   /\ call'.step = t
                   /\ call'.given.sparse_mat = view
                   /\ ind' = fit_mask(view)
                   /\ PySlice(sparse_mat', 0, seen) = Normalized(view)
                   /\ PySlice(sparse_mat', seen, cfg.T) = PySlice(sparse_in, seen, cfg.T)
                   /\ t >= 1 =>
                         \E brk \in BOOLEAN :
                            LET r == rolling_refit(Normalized(view), W, X_new, A, cfg.d,
                                                   cfg.season, trace.ncg + 1, brk)
                            IN  IF r.err # "none"
                                THEN ret' = Raised(r.err, "notmf_dic")
                                ELSE W' = r.W /\ X' = r.X /\ A' = r.A
             /\ (pc = "fit" /\ it < cfg.maxiter) =>
                   /\ call'.updates.conj_grad_w.sparse_mat =
                         Normalized(PySlice(sparse_in, 0, start_time))
                   /\ call'.updates.conj_grad_x.sparse_mat =
                         Normalized(PySlice(sparse_in, 0, start_time))
                   /\ call'.updates.conj_grad_w.ind = fit_mask(PySlice(sparse_in, 0, start_time))
             /\ (pc = "forecast" /\ pc' = "loop") =>
                   mat_hat' = WriteCols(mat_hat, t * cfg.delta,
                                 MatMul(Transpose(W),
                                        LastCols(var4cast(X, A, cfg.d, cfg.delta,
                                                          cfg.season).val, cfg.delta)))]_vars

\* C27 witness: window 0 has been forecast (finite values) while the
\* observation at its first column, start_time, is still the unread NaN the
\* caller passed.
C27_Witness ==
    /\ IsRolling /\ pc = "loop" /\ t = 1 /\ trace.nwin = 1
    /\ cfg.d >= 1 /\ start_time >= cfg.d + cfg.season + 1
    /\ IsNaN(At2(sparse_mat, 1, start_time + 1))
    /\ MatFinite(PySlice(mat_hat, 0, cfg.delta))
    /\ PySlice(mat_hat, 0, cfg.delta) # zeros(1, cfg.delta)

\* the matrix Y holds 0 wherever the mask of the same shape is false
ZeroWhereMasked(Y, mask) ==
    /\ Rows(Y) = Rows(mask) /\ Cols(Y) = Cols(mask)
    /\ \A i \in 1..Rows(Y) : \A j \in 1..Cols(Y) :
          ~ At2(mask, i, j) => At2(Y, i, j) = Zero

\* C28: in every fit call the matrix handed to conj_grad_w and conj_grad_x
\* holds 0 at every entry whose mask is false: in each outer iteration of
\* notmf, in notmf_dic (whose obs is the prefix of the caller's array it
\* has normalized) and in tmf.
C28_MaskedOutIsZero ==
    /\ (call.fn = "notmf" /\ call.updates # NoUpdates) =>
          /\ ZeroWhereMasked(call.updates.conj_grad_w.sparse_mat,
                             call.updates.conj_grad_w.ind)
          /\ ZeroWhereMasked(call.updates.conj_grad_x.sparse_mat,
                             call.updates.conj_grad_x.ind)
    /\ call.fn = "notmf_dic" =>
          ZeroWhereMasked(PySlice(sparse_mat, 0, Cols(call.given.sparse_mat)), ind)
    /\ call.fn = "tmf" => ZeroWhereMasked(sparse_mat, ind)

\* C28 witness: an outer iteration of notmf under the NaN policy handed its
\* solves a mask with a false entry, where the caller's array held NaN, and
\* a true entry.
C28_Witness ==
    /\ call.fn = "notmf" /\ call.updates # NoUpdates
    /\ \E j \in 1..Cols(call.updates.conj_grad_x.ind) :
          /\ IsNaN(At2(sparse_in, 1, j))
          /\ ~ At2(call.updates.conj_grad_x.ind, 1, j)
          /\ At2(call.updates.conj_grad_x.sparse_mat, 1, j) = Zero
    /\ \E j \in 1..Cols(call.updates.conj_grad_x.ind) :
          At2(call.updates.conj_grad_x.ind, 1, j)

\* C30 (as claimed): in the stationary solver every conjugate-gradient step
\* (update_cg) completes without error, so that tmf with maxiter >= 1 on a
\* valid configuration runs its outer iterations to completion and returns
\* (mat_hat, W, X, A).
C30_StationaryFitReturns ==
    (cfg.entry = "tmf" /\ cfg.maxiter >= 1 /\ ValidFit /\ pc \in {"done", "raised"}) =>
        /\ ret.kind = "return"
        /\ it = cfg.maxiter

=============================================================================
